---- MODULE Spec2Model ----
(***************************************************************************)
(* Model of src/lambda/handler.py: the Lambda handler that reads           *)
(* BUCKET_NAME, builds a timestamped record, puts it to S3 under a         *)
(* time-derived key and returns an HTTP-style envelope.                    *)
(*                                                                         *)
(* Python values are tagged records; Python strings are TLA+ strings.      *)
(* The clock is the pair (seconds since the epoch, microsecond).           *)
(***************************************************************************)
EXTENDS Integers, Sequences, FiniteSets, TLC

\* ------------------------------------------------------------ bounds
\* how often the clock moves
MaxTicks == 1

\* Two invocations, sequential or interleaved: the properties below concern
\* one invocation or a pair of them.
Invocations == {1, 2}

\* ------------------------------------------------------------ Python values
None == [t |-> "NoneType"]
PyStr(s) == [t |-> "str", v |-> s]
PyInt(n) == [t |-> "int", v |-> n]
\* a dict is its items in insertion order, each <<key, value>> with a str key
PyDict(items) == [t |-> "dict", items |-> items]
\* a value json cannot encode
PySet == [t |-> "set"]

\* a gate that tests only for a missing variable (`is None`)
Falsy_NoneOnly(x) == x = None

\* `not x` for the values os.environ.get can return
Falsy(x) == x = None \/ x = PyStr("")

\* ------------------------------------------------------------ inputs
\* handler's event argument
Events ==
  { PyDict(<< <<"foo", PyStr("bar")>>,
              <<"n", PyDict(<< <<"q", PyStr("a\"b")>>, <<"k", PyInt(7)>> >>)>> >>),
    PyDict(<< <<"s", PySet>> >>) }

\* the process environment: BUCKET_NAME unset, empty, or a bucket's name
Environs ==
  { [k \in {} |-> ""],
    [k \in {"BUCKET_NAME"} |-> ""],
    [k \in {"BUCKET_NAME"} |-> "my-bucket"] }

\* os.environ.get(k)
environ_get(env, k) == IF k \in DOMAIN env THEN PyStr(env[k]) ELSE None

\* what s3.put_object can raise
StorageErrors ==
  { [type |-> "ClientError",
     msg |-> "An error occurred (AccessDenied) when calling the PutObject operation: Access Denied"],
    [type |-> "ParamValidationError",
     msg |-> "Parameter validation failed:\nInvalid bucket name \"my-bucket\""] }

\* the classes `except Exception` catches (subclasses of Exception)
ExceptionTypes == { "ValueError", "TypeError", "ClientError", "ParamValidationError" }

\* instants the clock can show at the start: 2024-01-02T03:04:05Z,
\* 2023-12-31T23:59:58.5Z
StartInstants ==
  { [sec |-> 1704164645, us |-> 0],
    [sec |-> 1704067198, us |-> 500000] }

\* the clock moves in steps of half a second
TickMicros == 500000

\* ------------------------------------------------------------ text helpers
Digit(n) == SubSeq("0123456789", n + 1, n + 1)
Pad2(n) == Digit((n \div 10) % 10) \o Digit(n % 10)
Pad4(n) == Pad2(n \div 100) \o Pad2(n % 100)
Pad6(n) == Pad2(n \div 10000) \o Pad4(n % 10000)

RECURSIVE IntStr(_)
IntStr(n) == IF n < 10 THEN Digit(n) ELSE IntStr(n \div 10) \o Digit(n % 10)

StartsWith(s, p) == Len(s) >= Len(p) /\ SubSeq(s, 1, Len(p)) = p
EndsWith(s, p) == Len(s) >= Len(p) /\ SubSeq(s, Len(s) - Len(p) + 1, Len(s)) = p
Contains(s, p) == \E i \in 1..(Len(s) - Len(p) + 1) : SubSeq(s, i, i + Len(p) - 1) = p

\* ------------------------------------------------------------ datetime
\* the calendar fields of an instant (proleptic Gregorian, UTC)
Civil(dt) ==
  LET days == dt.sec \div 86400
      rem  == dt.sec % 86400
      z    == days + 719468
      era  == z \div 146097
      doe  == z - era * 146097
      yoe  == (doe - doe \div 1460 + doe \div 36524 - doe \div 146096) \div 365
      doy  == doe - (365 * yoe + yoe \div 4 - yoe \div 100)
      mp   == (5 * doy + 2) \div 153
      m    == IF mp < 10 THEN mp + 3 ELSE mp - 9
  IN  [year   |-> yoe + era * 400 + (IF m <= 2 THEN 1 ELSE 0),
       month  |-> m,
       day    |-> doy - (153 * mp + 2) \div 5 + 1,
       hour   |-> rem \div 3600,
       minute |-> (rem % 3600) \div 60,
       second |-> rem % 60,
       microsecond |-> dt.us]

\* a timestamp cut to whole seconds (timespec='seconds')
isoformat_Seconds(dt) ==
  LET c == Civil(dt)
  IN  Pad4(c.year) \o "-" \o Pad2(c.month) \o "-" \o Pad2(c.day) \o "T"
      \o Pad2(c.hour) \o ":" \o Pad2(c.minute) \o ":" \o Pad2(c.second)

\* datetime.isoformat(): the fraction is left out when microsecond is 0
isoformat(dt) ==
  LET c == Civil(dt)
  IN  Pad4(c.year) \o "-" \o Pad2(c.month) \o "-" \o Pad2(c.day) \o "T"
      \o Pad2(c.hour) \o ":" \o Pad2(c.minute) \o ":" \o Pad2(c.second)
      \o (IF c.microsecond = 0 THEN "" ELSE "." \o Pad6(c.microsecond))

\* a key format without the seconds ('%Y-%m-%d/%H-%M')
strftime_NoSeconds(dt) ==
  LET c == Civil(dt)
  IN  Pad4(c.year) \o "-" \o Pad2(c.month) \o "-" \o Pad2(c.day) \o "/"
      \o Pad2(c.hour) \o "-" \o Pad2(c.minute)

\* datetime.strftime('%Y-%m-%d/%H-%M-%S')
strftime(dt) ==
  LET c == Civil(dt)
  IN  Pad4(c.year) \o "-" \o Pad2(c.month) \o "-" \o Pad2(c.day) \o "/"
      \o Pad2(c.hour) \o "-" \o Pad2(c.minute) \o "-" \o Pad2(c.second)

\* ------------------------------------------------------------ json
RECURSIVE Serializable(_)
Serializable(o) ==
  CASE o.t = "dict" -> \A i \in 1..Len(o.items) : Serializable(o.items[i][2])
    [] o.t \in {"str", "int", "NoneType"} -> TRUE
    [] OTHER -> FALSE

EscapeChar(c) ==
  CASE c = "\"" -> "\\\""
    [] c = "\\" -> "\\\\"
    [] c = "\n" -> "\\n"
    [] OTHER -> c

RECURSIVE Escape(_)
Escape(s) ==
  LET special == { i \in 1..Len(s) : SubSeq(s, i, i) \in {"\"", "\\", "\n"} }
  IN  IF special = {} THEN s
      ELSE LET i == CHOOSE j \in special : \A k \in special : j <= k
           IN  SubSeq(s, 1, i - 1) \o EscapeChar(SubSeq(s, i, i))
               \o Escape(SubSeq(s, i + 1, Len(s)))

RECURSIVE Spaces(_)
Spaces(n) == IF n = 0 THEN "" ELSE " " \o Spaces(n - 1)

\* json.dumps(o) with indent=None (indent = -1 here) or indent=n, at nesting
\* depth `level`; defined for Serializable(o)
RECURSIVE json_encode(_, _, _)
RECURSIVE json_items(_, _, _, _)
json_items(items, i, indent, level) ==
  LET sep  == IF indent < 0 THEN ", " ELSE ",\n" \o Spaces(indent * level)
      item == "\"" \o Escape(items[i][1]) \o "\": "
              \o json_encode(items[i][2], indent, level)
  IN  IF i = Len(items) THEN item
      ELSE item \o sep \o json_items(items, i + 1, indent, level)

json_encode(o, indent, level) ==
  CASE o.t = "str" -> "\"" \o Escape(o.v) \o "\""
    [] o.t = "int" -> IntStr(o.v)
    [] o.t = "NoneType" -> "null"
    [] o.t = "dict" ->
         IF Len(o.items) = 0 THEN "{}"
         ELSE IF indent < 0 THEN "{" \o json_items(o.items, 1, indent, level + 1) \o "}"
         ELSE "{\n" \o Spaces(indent * (level + 1))
              \o json_items(o.items, 1, indent, level + 1)
              \o "\n" \o Spaces(indent * level) \o "}"

json_dumps(o) == json_encode(o, -1, 0)
json_dumps_indent(o, indent) == json_encode(o, indent, 0)

\* the error json.dumps raises for a value it cannot encode
json_TypeError ==
  [type |-> "TypeError", msg |-> "Object of type set is not JSON serializable"]

\* ------------------------------------------------------------ state
VARIABLES
  environ,      \* os.environ, the process-wide configuration
  clock,        \* the UTC wall clock: [sec, us]
  ticks,        \* how often the clock has moved
  s3_objects,   \* the store: a set of [Bucket, Key, Body, ContentType]
  pc,           \* pc[i]: invocation i's position in handler
  event,        \* event[i]: handler's argument
  bucket_name,  \* handler's locals
  response_data,
  s3_key,
  caught,       \* the exception bound to e in the except branch, or None
  stdout,       \* stdout[i]: the lines invocation i printed
  utcnow_calls, \* utcnow_calls[i]: what datetime.utcnow() returned to invocation i
  put_calls,    \* put_calls[i]: invocation i's put_object calls, each
                \* [Bucket, Key, raised |-> None or the exception raised]
  result        \* result[i]: what handler returned, or None

vars == << environ, clock, ticks, s3_objects, pc, event, bucket_name, response_data,
           s3_key, caught, stdout, utcnow_calls, put_calls, result >>

locals == << event, bucket_name, response_data, s3_key >>

Init ==
  /\ environ \in Environs
  /\ clock \in StartInstants
  /\ ticks = 0
  /\ s3_objects = {}
  /\ pc = [i \in Invocations |-> "idle"]
  /\ event = [i \in Invocations |-> None]
  /\ bucket_name = [i \in Invocations |-> None]
  /\ response_data = [i \in Invocations |-> None]
  /\ s3_key = [i \in Invocations |-> None]
  /\ caught = [i \in Invocations |-> None]
  /\ stdout = [i \in Invocations |-> << >>]
  /\ utcnow_calls = [i \in Invocations |-> << >>]
  /\ put_calls = [i \in Invocations |-> << >>]
  /\ result = [i \in Invocations |-> None]

\* ------------------------------------------------------------ envelopes
json_headers == "Content-Type" :> "application/json"

\* lines 43-53
success_envelope(data, bucket, key) ==
  [statusCode |-> 200,
   body |-> json_dumps_indent(
              PyDict(<< <<"message", PyStr("Success!")>>,
                        <<"data", data>>,
                        <<"s3_location", PyStr("s3://" \o bucket \o "/" \o key)>> >>), 2),
   headers |-> json_headers]

\* the message without its prefix
error_message_NoPrefix(e) == e.msg

\* lines 56, 59-67
error_message(e) == "Error: " \o e.msg

error_envelope(e) ==
  [statusCode |-> 500,
   body |-> json_dumps(PyDict(<< <<"error", PyStr(error_message(e))>> >>)),
   headers |-> json_headers]

\* an except branch that prints and falls off its end without a return
Except_NoReturn(i, e) ==
  /\ caught' = [caught EXCEPT ![i] = e]
  /\ stdout' = [stdout EXCEPT ![i] = Append(@, "Error: " \o e.msg)]
  /\ pc' = [pc EXCEPT ![i] = "returned"]
  /\ UNCHANGED result

\* a narrower clause, `except ValueError`
Catches_ValueErrorOnly(e) == e.type = "ValueError"

\* line 55: `except Exception` catches the subclasses of Exception
Catches(e) == e.type \in ExceptionTypes

\* the except branch, lines 55-67: bind e, print, return the 500 envelope;
\* an exception the clause does not catch leaves handler and reaches the host
Except(i, e) ==
  IF Catches(e)
  THEN /\ caught' = [caught EXCEPT ![i] = e]
       /\ stdout' = [stdout EXCEPT ![i] = Append(@, error_message(e))]
       /\ result' = [result EXCEPT ![i] = error_envelope(e)]
       /\ pc' = [pc EXCEPT ![i] = "returned"]
  ELSE /\ pc' = [pc EXCEPT ![i] = "propagated"]
       /\ UNCHANGED << caught, stdout, result >>

\* datetime.utcnow(): invocation i reads the clock
utcnow(i) == utcnow_calls' = [utcnow_calls EXCEPT ![i] = Append(@, clock)]

\* ------------------------------------------------------------ actions
\* the clock moves on
Tick ==
  /\ ticks < MaxTicks
  /\ ticks' = ticks + 1
  /\ clock' = IF clock.us + TickMicros >= 1000000
              THEN [sec |-> clock.sec + 1, us |-> clock.us + TickMicros - 1000000]
              ELSE [sec |-> clock.sec, us |-> clock.us + TickMicros]
  /\ UNCHANGED << environ, s3_objects, pc, locals, caught, stdout, utcnow_calls,
                  put_calls, result >>

\* the host calls handler(event, context)
Invoke(i) ==
  /\ pc[i] = "idle"
  /\ IF i = 1 THEN TRUE ELSE pc[i - 1] # "idle"
  /\ \E ev \in Events : event' = [event EXCEPT ![i] = ev]
  /\ pc' = [pc EXCEPT ![i] = "config"]
  /\ UNCHANGED << environ, clock, ticks, s3_objects, bucket_name, response_data,
                  s3_key, caught, stdout, utcnow_calls, put_calls, result >>

\* lines 18-21
ResolveConfig(i) ==
  /\ pc[i] = "config"
  /\ LET v == environ_get(environ, "BUCKET_NAME") IN
       /\ bucket_name' = [bucket_name EXCEPT ![i] = v]
       /\ IF Falsy(v)
          THEN Except(i, [type |-> "ValueError",
                          msg |-> "BUCKET_NAME environment variable not set"])
          ELSE /\ pc' = [pc EXCEPT ![i] = "assemble"]
               /\ UNCHANGED << caught, stdout, result >>
  /\ UNCHANGED << environ, clock, ticks, s3_objects, event, response_data, s3_key,
                  utcnow_calls, put_calls >>

\* lines 24-29
AssemblePayload(i) ==
  /\ pc[i] = "assemble"
  /\ utcnow(i)
  /\ response_data' = [response_data EXCEPT ![i] =
       PyDict(<< <<"message", PyStr("Hello from Lambda!")>>,
                 <<"timestamp", PyStr(isoformat(clock))>>,
                 <<"event", event[i]>>,
                 <<"bucket", bucket_name[i]>> >>)]
  /\ pc' = [pc EXCEPT ![i] = "key"]
  /\ UNCHANGED << environ, clock, ticks, s3_objects, event, bucket_name, s3_key,
                  caught, stdout, put_calls, result >>

\* a key built from the instant already read for the record
BuildKey_FirstRead(i) ==
  /\ pc[i] = "key"
  /\ utcnow(i)
  /\ s3_key' = [s3_key EXCEPT ![i] =
       PyStr("lambda-executions/" \o strftime(utcnow_calls[i][1]) \o ".json")]
  /\ pc' = [pc EXCEPT ![i] = "put"]
  /\ UNCHANGED << environ, clock, ticks, s3_objects, event, bucket_name, response_data,
                  caught, stdout, put_calls, result >>

\* line 32
BuildKey(i) ==
  /\ pc[i] = "key"
  /\ utcnow(i)
  /\ s3_key' = [s3_key EXCEPT ![i] =
       PyStr("lambda-executions/" \o strftime(clock) \o ".json")]
  /\ pc' = [pc EXCEPT ![i] = "put"]
  /\ UNCHANGED << environ, clock, ticks, s3_objects, event, bucket_name, response_data,
                  caught, stdout, put_calls, result >>

\* a store that keeps the object a put replaces
PutEffect_KeepOld(objects, call) == objects \cup { call }

\* what one put_object call leaves in the store: the object under the call's
\* bucket and key is replaced
PutEffect(objects, call) ==
  { o \in objects : ~(o.Bucket = call.Bucket /\ o.Key = call.Key) } \cup { call }

\* put_object returns: the object is stored, handler goes on to line 41
PutSucceeds(i, call) ==
  /\ put_calls' = [put_calls EXCEPT ![i] = Append(@,
       [Bucket |-> call.Bucket, Key |-> call.Key, raised |-> None])]
  /\ s3_objects' = PutEffect(s3_objects, call)
  /\ pc' = [pc EXCEPT ![i] = "respond"]
  /\ UNCHANGED << caught, stdout, result >>

\* a handler that swallows what the put raised and carries on
PutRaises_Ignored(i, call, e) ==
  /\ put_calls' = [put_calls EXCEPT ![i] = Append(@,
       [Bucket |-> call.Bucket, Key |-> call.Key, raised |-> e])]
  /\ pc' = [pc EXCEPT ![i] = "respond"]
  /\ UNCHANGED << s3_objects, caught, stdout, result >>

\* a handler that tries the put again after it raised
PutRaises_Retry(i, call, e) ==
  /\ put_calls' = [put_calls EXCEPT ![i] = Append(@,
       [Bucket |-> call.Bucket, Key |-> call.Key, raised |-> e])]
  /\ UNCHANGED << s3_objects, pc, caught, stdout, result >>

\* put_object raises e: nothing is stored, handler goes to the except branch
PutRaises(i, call, e) ==
  /\ put_calls' = [put_calls EXCEPT ![i] = Append(@,
       [Bucket |-> call.Bucket, Key |-> call.Key, raised |-> e])]
  /\ Except(i, e)
  /\ UNCHANGED s3_objects

\* lines 34-39: the body is serialized, then put_object succeeds or raises
PutObject(i) ==
  /\ pc[i] = "put"
  /\ IF ~Serializable(response_data[i])
     THEN /\ Except(i, json_TypeError)
          /\ UNCHANGED << s3_objects, put_calls >>
     ELSE LET call == [Bucket |-> bucket_name[i].v,
                       Key |-> s3_key[i].v,
                       Body |-> json_dumps_indent(response_data[i], 2),
                       ContentType |-> "application/json"]
          IN  \/ PutSucceeds(i, call)
              \/ \E e \in StorageErrors : PutRaises(i, call, e)
  /\ UNCHANGED << environ, clock, ticks, locals, utcnow_calls >>

\* lines 41-53
Respond(i) ==
  /\ pc[i] = "respond"
  /\ stdout' = [stdout EXCEPT ![i] = Append(@,
       "Successfully wrote data to s3://" \o bucket_name[i].v \o "/" \o s3_key[i].v)]
  /\ result' = [result EXCEPT ![i] =
       success_envelope(response_data[i], bucket_name[i].v, s3_key[i].v)]
  /\ pc' = [pc EXCEPT ![i] = "returned"]
  /\ UNCHANGED << environ, clock, ticks, s3_objects, locals, caught, utcnow_calls,
                  put_calls >>

\* one step of handler in invocation i
Step(i) ==
  \/ ResolveConfig(i)
  \/ AssemblePayload(i)
  \/ BuildKey(i)
  \/ PutObject(i)
  \/ Respond(i)

Next ==
  \/ Tick
  \/ \E i \in Invocations : Invoke(i)
  \/ \E i \in Invocations : Step(i)

Spec == Init /\ [][Next]_vars

\* handler is straight-line code with no loop and no wait on another
\* invocation: while some started invocation has a step to take, one is taken
FairSpec == Spec /\ WF_vars(\E i \in Invocations : Step(i))

\* ------------------------------------------------------------ reading results
\* the inverse of Escape
RECURSIVE Unescape(_)
Unescape(s) ==
  LET slashes == { i \in 1..(Len(s) - 1) : SubSeq(s, i, i) = "\\" }
  IN  IF slashes = {} THEN s
      ELSE LET i == CHOOSE j \in slashes : \A k \in slashes : j <= k
               c == SubSeq(s, i + 1, i + 1)
           IN  SubSeq(s, 1, i - 1)
               \o (CASE c = "n" -> "\n" [] c = "\"" -> "\"" [] c = "\\" -> "\\"
                     [] OTHER -> "\\" \o c)
               \o Unescape(SubSeq(s, i + 2, Len(s)))

ErrorBodyPrefix == "{\"error\": \""
ErrorBodySuffix == "\"}"
ErrorBodyMiddle(body) ==
  SubSeq(body, Len(ErrorBodyPrefix) + 1, Len(body) - Len(ErrorBodySuffix))

\* body is the JSON text of an object whose only field is error, a string
IsErrorBody(body) ==
  /\ Len(body) >= Len(ErrorBodyPrefix) + Len(ErrorBodySuffix)
  /\ StartsWith(body, ErrorBodyPrefix)
  /\ EndsWith(body, ErrorBodySuffix)
  /\ Escape(Unescape(ErrorBodyMiddle(body))) = ErrorBodyMiddle(body)

\* the value of that error field
ErrorField(body) == Unescape(ErrorBodyMiddle(body))

Digits == { Digit(d) : d \in 0..9 }
IsNumber(s) == \A i \in 1..Len(s) : SubSeq(s, i, i) \in Digits

RECURSIVE Num(_)
Num(s) ==
  IF s = "" THEN 0
  ELSE 10 * Num(SubSeq(s, 1, Len(s) - 1))
       + (CHOOSE d \in 0..9 : Digit(d) = SubSeq(s, Len(s), Len(s)))

\* seconds since the epoch of a calendar date and time of day
EpochSeconds(year, month, day, hour, minute, second) ==
  LET y   == IF month <= 2 THEN year - 1 ELSE year
      era == y \div 400
      yoe == y - era * 400
      mp  == IF month > 2 THEN month - 3 ELSE month + 9
      doy == (153 * mp + 2) \div 5 + day - 1
      doe == yoe * 365 + yoe \div 4 - yoe \div 100 + doy
  IN  (era * 146097 + doe - 719468) * 86400 + hour * 3600 + minute * 60 + second

KeyPrefix == "lambda-executions/"
KeySuffix == ".json"

\* k reads lambda-executions/YYYY-MM-DD/HH-MM-SS.json
KeyForm(k) ==
  /\ Len(k) = 42
  /\ SubSeq(k, 1, 18) = KeyPrefix
  /\ SubSeq(k, 38, 42) = KeySuffix
  /\ IsNumber(SubSeq(k, 19, 22)) /\ SubSeq(k, 23, 23) = "-"
  /\ IsNumber(SubSeq(k, 24, 25)) /\ SubSeq(k, 26, 26) = "-"
  /\ IsNumber(SubSeq(k, 27, 28)) /\ SubSeq(k, 29, 29) = "/"
  /\ IsNumber(SubSeq(k, 30, 31)) /\ SubSeq(k, 32, 32) = "-"
  /\ IsNumber(SubSeq(k, 33, 34)) /\ SubSeq(k, 35, 35) = "-"
  /\ IsNumber(SubSeq(k, 36, 37))

\* the instant a key of that form names
KeyInstant(k) ==
  [sec |-> EpochSeconds(Num(SubSeq(k, 19, 22)), Num(SubSeq(k, 24, 25)),
                        Num(SubSeq(k, 27, 28)), Num(SubSeq(k, 30, 31)),
                        Num(SubSeq(k, 33, 34)), Num(SubSeq(k, 36, 37))),
   us |-> 0]

\* the instant an ISO-8601 text YYYY-MM-DDTHH:MM:SS[.ffffff] names
IsoInstant(ts) ==
  [sec |-> EpochSeconds(Num(SubSeq(ts, 1, 4)), Num(SubSeq(ts, 6, 7)),
                        Num(SubSeq(ts, 9, 10)), Num(SubSeq(ts, 12, 13)),
                        Num(SubSeq(ts, 15, 16)), Num(SubSeq(ts, 18, 19))),
   us |-> IF Len(ts) > 19 THEN Num(SubSeq(ts, 21, 26)) ELSE 0]

\* a is strictly earlier than b
Earlier(a, b) == a.sec < b.sec \/ (a.sec = b.sec /\ a.us < b.us)

\* b - a in microseconds, for instants at most a few seconds apart
MicrosBetween(a, b) == (b.sec - a.sec) * 1000000 + (b.us - a.us)

\* the value a dict holds for key k
dict_get(d, k) ==
  LET n == CHOOSE n \in 1..Len(d.items) : d.items[n][1] = k IN d.items[n][2]

Returned(i) == pc[i] = "returned"
\* invocation i returns in this step
Returns(i) == pc[i] # "returned" /\ pc'[i] = "returned"
\* invocation i made a put_object call that succeeded
PutOk(i) == \E n \in 1..Len(put_calls[i]) : put_calls[i][n].raised = None
\* invocation i made a put_object call that raised
PutRaised(i) == \E n \in 1..Len(put_calls[i]) : put_calls[i][n].raised # None
\* BUCKET_NAME is unset or empty
NoBucket == "BUCKET_NAME" \notin DOMAIN environ \/ environ["BUCKET_NAME"] = ""

\* ------------------------------------------------------------ C1
\* C1 (config gate): when BUCKET_NAME is unset or empty, an invocation goes
\* from the configuration check straight to its return, the result has
\* statusCode 500 and a body whose error field contains "BUCKET_NAME
\* environment variable not set", and put_object is never called.
C1_ConfigGate ==
  \A i \in Invocations :
    NoBucket =>
      /\ put_calls[i] = << >>
      /\ pc[i] \in {"idle", "config", "returned"}
      /\ Returned(i) =>
           /\ result[i].statusCode = 500
           /\ IsErrorBody(result[i].body)
           /\ Contains(ErrorField(result[i].body),
                       "BUCKET_NAME environment variable not set")

C1_Witness ==
  \E i \in Invocations :
    /\ "BUCKET_NAME" \in DOMAIN environ /\ environ["BUCKET_NAME"] = ""
    /\ Returned(i)
    /\ result[i].statusCode = 500

\* ------------------------------------------------------------ C2
\* YYYY-MM-DD/HH-MM-SS of an instant
KeyStamp(dt) ==
  LET c == Civil(dt)
  IN  Pad4(c.year) \o "-" \o Pad2(c.month) \o "-" \o Pad2(c.day) \o "/"
      \o Pad2(c.hour) \o "-" \o Pad2(c.minute) \o "-" \o Pad2(c.second)

\* the ResponseRecord of invocation i: the fixed message, the first clock
\* read as ISO-8601 text, the input event and the configured bucket
ResponseRecord(i) ==
  PyDict(<< <<"message", PyStr("Hello from Lambda!")>>,
            <<"timestamp", PyStr(isoformat(utcnow_calls[i][1]))>>,
            <<"event", event[i]>>,
            <<"bucket", PyStr(environ["BUCKET_NAME"])>> >>)

\* the JSON text of {message: "Success!", data, s3_location}
SuccessBody(data, location) ==
  json_dumps_indent(PyDict(<< <<"message", PyStr("Success!")>>,
                              <<"data", data>>,
                              <<"s3_location", PyStr(location)>> >>), 2)

\* C2 (success shape): when the put has succeeded, handler returns statusCode
\* 200 with a body that is the JSON text of message "Success!", data = the
\* ResponseRecord (its event the input event) and s3_location =
\* "s3://<bucket>/<key>" for the bucket and key passed to the put; the bucket
\* is the non-empty configured one and the key is
\* lambda-executions/YYYY-MM-DD/HH-MM-SS.json of the clock value read when the
\* key was built (the invocation's second clock read).
C2_SuccessShape ==
  [][\A i \in Invocations :
       (PutOk(i) /\ Returns(i)) =>
         LET put == put_calls[i][1]
         IN  /\ result'[i].statusCode = 200
             /\ result'[i].body =
                  SuccessBody(ResponseRecord(i), "s3://" \o put.Bucket \o "/" \o put.Key)
             /\ put.Bucket = environ["BUCKET_NAME"]
             /\ put.Bucket # ""
             /\ KeyForm(put.Key)
             /\ put.Key = KeyPrefix \o KeyStamp(utcnow_calls[i][2]) \o KeySuffix]_vars

C2_Witness ==
  \E i \in Invocations :
    /\ Returned(i)
    /\ result[i].statusCode = 200
    /\ PutOk(i)
    /\ utcnow_calls[i][1] # utcnow_calls[i][2]

\* ------------------------------------------------------------ C3
\* C3 (failure shape on write error): when put_object has raised, handler
\* has returned statusCode 500 with a body whose only field is error, and
\* that field is "Error: " followed by the message of the raised error.
C3_WriteErrorShape ==
  \A i \in Invocations :
    \A n \in 1..Len(put_calls[i]) :
      put_calls[i][n].raised # None =>
        /\ Returned(i)
        /\ result[i].statusCode = 500
        /\ IsErrorBody(result[i].body)
        /\ StartsWith(ErrorField(result[i].body), "Error: ")
        /\ ErrorField(result[i].body) = "Error: " \o put_calls[i][n].raised.msg

C3_Witness ==
  \E i \in Invocations :
    /\ PutRaised(i)
    /\ Returned(i)
    /\ Contains(result[i].body, "Invalid bucket name")

\* ------------------------------------------------------------ C4
\* C4 (envelope always returned): no failure leaves handler for the host; an
\* invocation that has started and not returned can take its next step; and
\* what it returns has exactly the fields statusCode, body and headers, with
\* statusCode 200 or 500 and headers holding Content-Type: application/json.
C4_EnvelopeAlways ==
  \A i \in Invocations :
    /\ pc[i] # "propagated"
    /\ pc[i] \notin {"idle", "returned"} => ENABLED Step(i)
    /\ (result[i] # None) <=> Returned(i)
    /\ Returned(i) =>
         /\ DOMAIN result[i] = {"statusCode", "body", "headers"}
         /\ result[i].statusCode \in {200, 500}
         /\ "Content-Type" \in DOMAIN result[i].headers
         /\ result[i].headers["Content-Type"] = "application/json"

C4_Witness ==
  \E i \in Invocations :
    /\ Returned(i)
    /\ caught[i] # None
    /\ caught[i].type = "TypeError"
    /\ result[i].statusCode = 500

\* ------------------------------------------------------------ C5
\* C5 (at most one write): an invocation calls put_object at most once; a put
\* that raised is followed by nothing but the 500 envelope, and a put that
\* succeeded by no further put.
C5_AtMostOneWrite ==
  \A i \in Invocations :
    /\ Len(put_calls[i]) <= 1
    /\ PutRaised(i) => (Returned(i) /\ result[i].statusCode = 500)
    /\ PutOk(i) => pc[i] \in {"respond", "returned"}

C5_Witness ==
  \E i \in Invocations :
    /\ Len(put_calls[i]) = 1
    /\ put_calls[i][1].raised # None
    /\ Returned(i)
    /\ s3_objects = {}

\* ------------------------------------------------------------ C6
\* the objects of a store under bucket b and key k
ObjectsAt(objects, b, k) == { o \in objects : o.Bucket = b /\ o.Key = k }

\* the two stores agree outside bucket b, key k
SameElsewhere(before, after, b, k) ==
  /\ \A o \in before : (o.Bucket # b \/ o.Key # k) => o \in after
  /\ \A o \in after : (o.Bucket # b \/ o.Key # k) => o \in before

\* invocation i's put_object succeeds in this step
PutSucceeding(i) ==
  /\ pc[i] = "put"
  /\ Len(put_calls'[i]) = Len(put_calls[i]) + 1
  /\ put_calls'[i][Len(put_calls'[i])].raised = None

\* C6 (store effect): the step in which an invocation's put succeeds leaves
\* exactly one object under the derived key in the configured bucket and the
\* rest of the store as it was; no other step changes the store, so an
\* invocation that fails at the configuration check, while serializing, or
\* in a put that raised has changed nothing; an invocation that returned 200
\* made exactly one put, a successful one, to that bucket and key.
C6_StoreEffect ==
  /\ [][\A i \in Invocations :
          /\ PutSucceeding(i) =>
               /\ Cardinality(ObjectsAt(s3_objects', environ["BUCKET_NAME"], s3_key[i].v)) = 1
               /\ SameElsewhere(s3_objects, s3_objects', environ["BUCKET_NAME"], s3_key[i].v)
          /\ (Returns(i) /\ result'[i].statusCode = 500) => s3_objects' = s3_objects
       ]_vars
  /\ [][s3_objects' # s3_objects => \E i \in Invocations : PutSucceeding(i)]_vars
  /\ [](\A i \in Invocations :
          /\ (Returned(i) /\ result[i].statusCode = 200) =>
               /\ Len(put_calls[i]) = 1
               /\ put_calls[i][1] = [Bucket |-> environ["BUCKET_NAME"],
                                     Key |-> s3_key[i].v, raised |-> None]
               /\ ObjectsAt(s3_objects, environ["BUCKET_NAME"], s3_key[i].v) # {}
          /\ (Returned(i) /\ result[i].statusCode = 500) => ~PutOk(i))

C6_Witness ==
  \E i, j \in Invocations :
    /\ Returned(i) /\ result[i].statusCode = 200
    /\ Returned(j) /\ result[j].statusCode = 500 /\ put_calls[j] = << >>
    /\ Cardinality(s3_objects) = 1

\* ------------------------------------------------------------ C7
Rank(p) ==
  CASE p = "idle" -> 0
    [] p = "config" -> 1
    [] p = "assemble" -> 2
    [] p = "key" -> 3
    [] p = "put" -> 4
    [] p = "respond" -> 5
    [] p = "returned" -> 6
    [] OTHER -> 7

\* Pending -> {Succeeded, Failed} of an invocation that has started
State(i) ==
  IF result[i] = None THEN "Pending"
  ELSE IF result[i].statusCode = 200 THEN "Succeeded"
  ELSE IF result[i].statusCode = 500 THEN "Failed"
  ELSE "Other"

\* what invocation i has done so far: clock reads and puts
Done(i, reads, puts) == Len(utcnow_calls[i]) = reads /\ Len(put_calls[i]) = puts

\* C7 (invocation state machine): a started invocation is Pending until it
\* returns; it takes config resolution, payload assembly (first clock read),
\* key building (second clock read) and the write in that order, each once;
\* it leaves Pending only for Succeeded (after a successful write) or Failed
\* (at the configuration check, the serialization or the write, with no
\* later step taken); Succeeded and Failed are final; and every started
\* invocation reaches one of them.
C7_StateMachine ==
  /\ [](\A i \in Invocations :
          /\ Rank(pc[i]) <= 6
          /\ (State(i) = "Pending") <=> ~Returned(i)
          /\ State(i) \in {"Pending", "Succeeded", "Failed"}
          /\ Rank(pc[i]) <= 2 => Done(i, 0, 0)
          /\ Rank(pc[i]) = 3 => Done(i, 1, 0)
          /\ Rank(pc[i]) = 4 => Done(i, 2, 0)
          /\ Rank(pc[i]) = 5 => (Done(i, 2, 1) /\ PutOk(i))
          /\ State(i) = "Succeeded" => (Done(i, 2, 1) /\ PutOk(i) /\ caught[i] = None)
          /\ State(i) = "Failed" =>
               \/ Done(i, 0, 0) /\ caught[i].type = "ValueError"
               \/ Done(i, 2, 0) /\ caught[i].type = "TypeError"
               \/ Done(i, 2, 1) /\ put_calls[i][1].raised = caught[i])
  /\ [][\A i \in Invocations :
          /\ pc'[i] # pc[i] =>
               \/ Rank(pc'[i]) = Rank(pc[i]) + 1 /\ Rank(pc'[i]) < 6
               \/ pc[i] = "respond" /\ State(i)' = "Succeeded"
               \/ pc[i] \in {"config", "put"} /\ State(i)' = "Failed"
          /\ Returned(i) =>
               UNCHANGED << pc[i], result[i], caught[i], put_calls[i], utcnow_calls[i],
                            stdout[i], event[i], bucket_name[i], response_data[i],
                            s3_key[i] >>
       ]_vars
  /\ <>[](\A i \in Invocations :
            pc[i] # "idle" => State(i) \in {"Succeeded", "Failed"})

C7_Witness ==
  \E i, j \in Invocations :
    /\ State(i) = "Succeeded"
    /\ State(j) = "Failed"
    /\ Done(j, 2, 1)

\* ------------------------------------------------------------ C8
\* invocation i has built its key
HasKey(i) == Len(utcnow_calls[i]) = 2

\* C8 (key collision): invocations share the configured destination, and two
\* of them that have built their keys have the same key exactly when their
\* key-building clock reads fall in the same UTC second: keys of one second
\* collide, keys of different seconds are distinct. The store holds at most
\* one object per bucket and key, and a successful put leaves its own body
\* there, replacing what an earlier put stored under that key.
C8_KeyCollision ==
  /\ [](\A i, j \in Invocations :
          (HasKey(i) /\ HasKey(j)) =>
            /\ bucket_name[i] = bucket_name[j]
            /\ (s3_key[i] = s3_key[j]) <=> (utcnow_calls[i][2].sec = utcnow_calls[j][2].sec))
  /\ [](\A o1, o2 \in s3_objects :
          (o1.Bucket = o2.Bucket /\ o1.Key = o2.Key) => o1 = o2)
  /\ [][\A i \in Invocations :
          PutSucceeding(i) =>
            ObjectsAt(s3_objects', bucket_name[i].v, s3_key[i].v) =
              { [Bucket |-> bucket_name[i].v, Key |-> s3_key[i].v,
                 Body |-> json_dumps_indent(ResponseRecord(i), 2),
                 ContentType |-> "application/json"] }
       ]_vars

\* both returned 200 with the same location, their records differ, and the
\* store holds one object
C8_Witness ==
  \E i, j \in Invocations :
    /\ i # j
    /\ Returned(i) /\ result[i].statusCode = 200
    /\ Returned(j) /\ result[j].statusCode = 200
    /\ put_calls[i][1].Key = put_calls[j][1].Key
    /\ put_calls[i][1].Bucket = put_calls[j][1].Bucket
    /\ utcnow_calls[i][2] # utcnow_calls[j][2]
    /\ response_data[i] # response_data[j]
    /\ Cardinality(s3_objects) = 1

\* ------------------------------------------------------------ C9
\* the instants the record's timestamp and the key of invocation i name
BodyInstant(i) == IsoInstant(dict_get(response_data[i], "timestamp").v)
EmbeddedKeyInstant(i) == KeyInstant(s3_key[i].v)

====
